---- MODULE Spec2Model ----
(***************************************************************************)
(* mbot: a polling reminder engine (src/src/main.rs).                      *)
(*                                                                         *)
(* Every tick the main loop reads schedules/schedule.md, parses it into    *)
(* tasks, samples the local clock and scans the tasks under the write lock *)
(* of the shared set `reminded`; a task that is incomplete, not yet in the *)
(* set and due is logged as a reminder and its key inserted.               *)
(*                                                                         *)
(* Text is modelled as sequences of one-character strings, a calendar date *)
(* as <<year, month, day>>, Option<T> as a sequence of length 0 or 1, and  *)
(* a NaiveDateTime as [date, tod] with tod counted in ticks of 1/SubSec    *)
(* second since midnight.                                                  *)
(***************************************************************************)
EXTENDS Integers, Sequences, FiniteSets, TLC

VARIABLES
    pc,          \* "running" | "panicked": the process (main.rs:53, 97)
    reminded,    \* the HashSet<String> behind the RwLock (main.rs:50)
    tasks,       \* the Vec<Task> parsed in the latest cycle (main.rs:56)
    now,         \* the instant sampled in the latest cycle (main.rs:57)
    prev,        \* `reminded` as the latest cycle found it
    fired,       \* positions in `tasks` whose reminder the latest cycle logged
    readFailed,  \* the latest tick's read of the document failed
    seen,        \* keys of all tasks parsed so far
    emitted,     \* keys for which a reminder has ever been logged
    refired,     \* keys for which a reminder has been logged more than once
    lock,        \* the holder of the write lock of `reminded`, 0 when free
    lpc,         \* per loop task: "tick" | "lock" | "scan" | "emit"
    ltasks,      \* per loop task: the tasks it parsed
    lnow,        \* per loop task: the instant it sampled
    lpos,        \* per loop task: the position of its scan in ltasks
    ticker,      \* the instant of the next tick when ticks keep their cadence
    forms,       \* the lines a text given to parse_tasks was written from
    text,        \* a text given to parse_tasks
    parsed       \* None, or the Vec<Task> parse_tasks returned for `text`

loopVars == <<lock, lpc, ltasks, lnow, lpos>>

parseVars == <<forms, text, parsed>>

cycleVars == <<pc, tasks, now, prev, fired, readFailed, seen, forms, text, parsed>>

vars == <<pc, reminded, tasks, now, prev, fired, readFailed, seen, emitted, refired,
          lock, lpc, ltasks, lnow, lpos, ticker, forms, text, parsed>>

----------------------------------------------------------------------------
(* Bounds of the model *)

\* Sub-second resolution of the clock: ticks per second.
SubSec == 2

\* Longest document, in lines.
MaxLines == 2

\* Loop tasks sharing the set when cycles overlap.
NumLoops == 2

\* The earliest first cycle of a fixed-cadence run, in seconds before 14:30.
MaxLead == 61

----------------------------------------------------------------------------
(* Option<T> *)

None == <<>>
Some(x) == <<x>>
IsSome(o) == Len(o) = 1
Unwrap(o) == o[1]

----------------------------------------------------------------------------
(* Characters and numbers *)

Digits == {"0", "1", "2", "3", "4", "5", "6", "7", "8", "9"}

DigitSeq == <<"0", "1", "2", "3", "4", "5", "6", "7", "8", "9">>

\* A whitespace class that knows the blank only
IsSpaceBlankOnly(c) == c = " "

\* \s of the regex, over the characters the documents use
IsSpace(c) == c \in {" ", "\t"}

\* \d of the regex, over the characters the documents use
IsDigit(c) == c \in Digits

DigitVal(c) == CHOOSE n \in 0..9 : DigitSeq[n + 1] = c

\* The character at position i of s, or "" past its end.
At(s, i) == IF i >= 1 /\ i <= Len(s) THEN s[i] ELSE ""

\* Two decimal digits as a number.
Num2(s, i) == 10 * DigitVal(s[i]) + DigitVal(s[i + 1])

\* Four decimal digits as a number.
Num4(s, i) == 100 * Num2(s, i) + Num2(s, i + 2)

\* {:02} and {:04} of a number
Pad2(n) == <<DigitSeq[((n \div 10) % 10) + 1], DigitSeq[(n % 10) + 1]>>
Pad4(n) == Pad2(n \div 100) \o Pad2(n % 100)

----------------------------------------------------------------------------
(* chrono: NaiveDate, NaiveDateTime, TimeDelta *)

IsLeap(y) == (y % 4 = 0 /\ y % 100 # 0) \/ y % 400 = 0

DaysInMonth(y, m) ==
    IF m \in {4, 6, 9, 11} THEN 30
    ELSE IF m = 2 THEN (IF IsLeap(y) THEN 29 ELSE 28)
    ELSE 31

\* NaiveDate::from_ymd_opt(..).is_some()
ValidDate(y, m, d) == m >= 1 /\ m <= 12 /\ d >= 1 /\ d <= DaysInMonth(y, m)

\* Days since 0000-03-01 of a valid date (proleptic Gregorian).
DayNum(date) ==
    LET y == IF date[2] <= 2 THEN date[1] - 1 ELSE date[1]
        mp == (date[2] + 9) % 12
    IN  365 * y + (y \div 4) - (y \div 100) + (y \div 400)
        + ((153 * mp + 2) \div 5) + date[3] - 1

\* Display of a NaiveDate: %Y-%m-%d
DateString(date) == Pad4(date[1]) \o <<"-">> \o Pad2(date[2]) \o <<"-">> \o Pad2(date[3])

\* A date parse that takes the digits as they are
ParseDateUnchecked(s) == Some(<<Num4(s, 1), Num2(s, 6), Num2(s, 9)>>)

\* NaiveDate::parse_from_str(s, "%Y-%m-%d").ok() for s matching \d{4}-\d{2}-\d{2}
ParseDate(s) ==
    LET y == Num4(s, 1)
        m == Num2(s, 6)
        d == Num2(s, 9)
    IN  IF ValidDate(y, m, d) THEN Some(<<y, m, d>>) ELSE None

TicksPerMinute == 60 * SubSec
TicksPerHour == 60 * TicksPerMinute
TicksPerDay == 24 * TicksPerHour

\* A NaiveDateTime from its fields; f counts ticks within the second.
DateTime(date, h, m, s, f) ==
    [date |-> date, tod |-> h * TicksPerHour + m * TicksPerMinute + s * SubSec + f]

\* Timelike::hour, Timelike::minute
Hour(t) == t.tod \div TicksPerHour
Minute(t) == (t.tod \div TicksPerMinute) % 60

\* a - b of two NaiveDateTime, a TimeDelta in ticks
Sub(a, b) == (DayNum(a.date) - DayNum(b.date)) * TicksPerDay + (a.tod - b.tod)

\* The day after a valid date
Succ(date) ==
    IF date[3] < DaysInMonth(date[1], date[2]) THEN <<date[1], date[2], date[3] + 1>>
    ELSE IF date[2] < 12 THEN <<date[1], date[2] + 1, 1>>
    ELSE <<date[1] + 1, 1, 1>>

\* t + secs seconds, for less than a day of seconds
PlusSeconds(t, secs) ==
    LET tod == t.tod + secs * SubSec IN
    IF tod < TicksPerDay THEN [date |-> t.date, tod |-> tod]
    ELSE [date |-> Succ(t.date), tod |-> tod - TicksPerDay]

\* num_seconds rounding down instead of toward zero
NumSecondsFloored(delta) == delta \div SubSec

\* TimeDelta::num_seconds: whole seconds, truncated toward zero
NumSeconds(delta) ==
    IF delta >= 0 THEN delta \div SubSec ELSE -((-delta) \div SubSec)

\* NaiveDateTime::parse_from_str("{date} {t}", "%Y-%m-%d %H:%M").ok(): the date
\* part is the Display of a valid date, so the result rests on t being HH:MM
\* with HH in 00..23 and MM in 00..59.
ParseDateTime(date, t) ==
    IF /\ Len(t) = 5
       /\ IsDigit(t[1]) /\ IsDigit(t[2]) /\ t[3] = ":" /\ IsDigit(t[4]) /\ IsDigit(t[5])
       /\ Num2(t, 1) <= 23
       /\ Num2(t, 4) <= 59
    THEN Some(DateTime(date, Num2(t, 1), Num2(t, 4), 0, 0))
    ELSE None

----------------------------------------------------------------------------
(* Task *)

Task(completed, date, time, description) ==
    [completed |-> completed, date |-> date, time |-> time, description |-> description]

\* Task::datetime
datetime(task) ==
    IF IsSome(task.time) THEN ParseDateTime(task.date, Unwrap(task.time)) ELSE None

\* A key that tells a completed task from an incomplete one
KeyWithStatus(task) ==
    (IF task.completed THEN <<"x">> ELSE <<" ">>) \o DateString(task.date)
        \o (IF IsSome(task.time) THEN Unwrap(task.time) ELSE <<>>) \o task.description

\* A key that leaves the marker of an absent time out
KeyWithoutMarker(task) ==
    DateString(task.date) \o <<"-">>
        \o (IF IsSome(task.time) THEN Unwrap(task.time) \o <<"-">> ELSE <<>>)
        \o task.description

\* Task::unique_key
unique_key(task) ==
    IF IsSome(task.time)
    THEN DateString(task.date) \o <<"-">> \o Unwrap(task.time) \o <<"-">> \o task.description
    ELSE DateString(task.date) \o <<"-", "a", "l", "l", "d", "a", "y", "-">> \o task.description

\* Display for Task
Display(task) ==
    (IF task.completed THEN <<"[", "x", "]">> ELSE <<"[", " ", "]">>)
        \o <<" ">> \o DateString(task.date)
        \o (IF IsSome(task.time) THEN <<" ">> \o Unwrap(task.time) ELSE <<>>)
        \o <<" ", ":", " ">> \o task.description

----------------------------------------------------------------------------
(* parse_tasks *)

\* str::lines: the text split at "\n"; a final line needs no terminator, and a
\* "\r" before the "\n" goes with it.
RECURSIVE LinesFrom(_, _, _)
LinesFrom(content, i, cur) ==
    IF i > Len(content) THEN (IF cur = <<>> THEN <<>> ELSE <<cur>>)
    ELSE IF content[i] = "\n"
         THEN <<(IF cur # <<>> /\ cur[Len(cur)] = "\r"
                 THEN SubSeq(cur, 1, Len(cur) - 1) ELSE cur)>>
              \o LinesFrom(content, i + 1, <<>>)
         ELSE LinesFrom(content, i + 1, Append(cur, content[i]))

Lines(content) == LinesFrom(content, 1, <<>>)

\* The first position from i on that holds no whitespace (Len + 1 if none): \s*
RECURSIVE SkipSpaces(_, _)
SkipSpaces(line, i) ==
    IF i <= Len(line) /\ IsSpace(line[i]) THEN SkipSpaces(line, i + 1) ELSE i

\* \d{4}-\d{2}-\d{2} at position i
DateAt(line, i) ==
    /\ i + 9 <= Len(line)
    /\ \A k \in {0, 1, 2, 3, 5, 6, 8, 9} : IsDigit(line[i + k])
    /\ line[i + 4] = "-"
    /\ line[i + 7] = "-"

\* \d{2}:\d{2} at position i
TimeAt(line, i) ==
    /\ i + 4 <= Len(line)
    /\ \A k \in {0, 1, 3, 4} : IsDigit(line[i + k])
    /\ line[i + 2] = ":"

\* trim of a string
RECURSIVE TrimEnd(_)
TrimEnd(s) ==
    IF s # <<>> /\ IsSpace(s[Len(s)]) THEN TrimEnd(SubSeq(s, 1, Len(s) - 1)) ELSE s

Trim(s) == TrimEnd(SubSeq(s, SkipSpaces(s, 1), Len(s)))

\* A status kept in the case it was written in
KeepCase(c) == c

\* to_lowercase of a status character
ToLowercase(c) == IF c = "X" THEN "x" ELSE c

\* re.captures(line) for
\*   ^- \[([ xX])\]\s*(\d{4}-\d{2}-\d{2})(?:\s+(\d{2}:\d{2}))?\s*:\s*(.+)$
\* None, or the groups [status, date, time, desc]. The greedy \s* before (.+)
\* gives one character back when only whitespace follows the colon.
Captures(line) ==
    LET p == SkipSpaces(line, 6)
        q == p + 10
        r == SkipSpaces(line, q)
        hasTime == r > q /\ TimeAt(line, r)
        c == SkipSpaces(line, IF hasTime THEN r + 5 ELSE q)
        d == SkipSpaces(line, c + 1)
    IN  IF /\ Len(line) >= 5
           /\ line[1] = "-" /\ line[2] = " " /\ line[3] = "["
           /\ line[4] \in {" ", "x", "X"}
           /\ line[5] = "]"
           /\ DateAt(line, p)
           /\ At(line, c) = ":"
           /\ Len(line) > c
        THEN Some([status |-> line[4],
                   date   |-> SubSeq(line, p, p + 9),
                   time   |-> IF hasTime THEN Some(SubSeq(line, r, r + 4)) ELSE None,
                   desc   |-> SubSeq(line, IF d <= Len(line) THEN d ELSE Len(line),
                                     Len(line))])
        ELSE None

\* The body of the loop over the lines: the tasks one line pushes (none or one).
ParseLine(line) ==
    LET caps == Captures(line) IN
    IF IsSome(caps)
    THEN LET completed   == ToLowercase(Unwrap(caps).status) = "x"
             date        == ParseDate(Unwrap(caps).date)
             time        == Unwrap(caps).time
             description == Trim(Unwrap(caps).desc)
         IN  IF IsSome(date)
             THEN <<Task(completed, Unwrap(date), time, description)>>
             ELSE <<>>
    ELSE <<>>

RECURSIVE ParseLines(_)
ParseLines(ls) ==
    IF ls = <<>> THEN <<>> ELSE ParseLine(Head(ls)) \o ParseLines(Tail(ls))

parse_tasks(content) == ParseLines(Lines(content))

----------------------------------------------------------------------------
(* The documents and clock readings the model draws from *)

Open == <<"-", " ", "[", " ", "]", " ">>
Done == <<"-", " ", "[", "x", "]", " ">>
DoneUpper == <<"-", " ", "[", "X", "]", " ">>
May1 == <<"2", "0", "2", "4", "-", "0", "5", "-", "0", "1">>
HalfPastTwo == <<" ", "1", "4", ":", "3", "0">>
Colon == <<" ", ":", " ">>

\* - [ ] 2024-05-01 14:30 : w
TimedOpen == Open \o May1 \o HalfPastTwo \o Colon \o <<"w">>
\* - [x] 2024-05-01 14:30 : w
TimedDone == Done \o May1 \o HalfPastTwo \o Colon \o <<"w">>
\* - [ ] 2024-05-01 : w
AllDayOpen == Open \o May1 \o Colon \o <<"w">>
\* - [X] 2024-05-01 : w
AllDayDone == DoneUpper \o May1 \o Colon \o <<"w">>

LineSet == {TimedOpen, TimedDone, AllDayOpen, AllDayDone}

\* The text of a file holding the lines ls, each ended by a newline.
RECURSIVE Join(_)
Join(ls) == IF ls = <<>> THEN <<>> ELSE Head(ls) \o <<"\n">> \o Join(Tail(ls))

LineSeqs(lines) == UNION {[1..n -> lines] : n \in 0..MaxLines}

DocsOver(lines) == {Join(ls) : ls \in LineSeqs(lines)}

\* Documents of the polling runs
Docs == DocsOver(LineSet)

\* Documents of the runs that look at the time window
WindowDocs == DocsOver({TimedOpen, TimedDone})

\* Documents of the fixed-cadence runs: the timed task is there, incomplete
CadenceDocs ==
    {Join(ls) : ls \in {l \in LineSeqs({TimedOpen, TimedDone}) :
                           \E i \in DOMAIN l : l[i] = TimedOpen}}

\* Documents of the overlapping loops
OverlapDocs == DocsOver({TimedOpen})

\* - [ ] 2024-05-01 25:00 : w
LateOpen == Open \o May1 \o <<" ", "2", "5", ":", "0", "0">> \o Colon \o <<"w">>
\* - [x] 2024-05-01 25:00 : w
LateDone == Done \o May1 \o <<" ", "2", "5", ":", "0", "0">> \o Colon \o <<"w">>

\* Documents of the runs that meet a time no clock shows
LateDocs == DocsOver({LateOpen, LateDone, TimedOpen})

DayOne == <<2024, 5, 1>>
DayTwo == <<2024, 5, 2>>

\* 14:30 on 2024-05-01, the instant of the timed lines
HalfPast == DateTime(DayOne, 14, 30, 0, 0)

\* Clock readings of the polling runs: in and out of the window of 14:30,
\* and around 09:00. The last tick of a second is SubSec - 1 ticks into it.
Nows ==
    {DateTime(DayOne, 14, 29, 0, 0), HalfPast,
     DateTime(DayOne, 8, 59, 59, SubSec - 1), DateTime(DayOne, 9, 0, 0, 0),
     DateTime(DayOne, 9, 0, 59, SubSec - 1), DateTime(DayOne, 9, 1, 0, 0),
     DateTime(DayTwo, 9, 0, 0, 0)}

\* Clock readings of the runs that meet a time no clock shows
LateNows ==
    {DateTime(DayOne, 9, 0, 0, 0), DateTime(DayOne, 9, 1, 0, 0), HalfPast,
     DateTime(DayTwo, 1, 0, 0, 0), DateTime(DayTwo, 9, 0, 0, 0)}

\* Clock readings around 14:30
WindowNows ==
    {DateTime(DayOne, 14, 29, 0, 0), DateTime(DayOne, 14, 29, 0, 1),
     DateTime(DayOne, 14, 29, 59, 0), HalfPast,
     DateTime(DayOne, 14, 30, 0, SubSec - 1), DateTime(DayOne, 14, 30, 1, 0),
     DateTime(DayOne, 14, 30, 59, 0), DateTime(DayOne, 14, 31, 0, 0),
     DateTime(DayTwo, 14, 30, 0, 0)}

\* Clock readings of the overlapping loops
OverlapNows == {DateTime(DayOne, 14, 29, 0, 0), HalfPast}

\* parse_tasks over the documents of the model, computed once
Parsed ==
    [content \in Docs \cup WindowDocs \cup CadenceDocs \cup OverlapDocs \cup LateDocs |->
        parse_tasks(content)]

----------------------------------------------------------------------------
(* The polling loop of main *)

\* should_remind with the window closed at both ends: 0..=60
ShouldRemindInclusive(task, n) ==
    LET task_dt == datetime(task) IN
    IF IsSome(task_dt)
    THEN LET diff == NumSeconds(Sub(Unwrap(task_dt), n))
         IN  diff >= 0 /\ diff <= 60
    ELSE task.date = n.date /\ Hour(n) = 9 /\ Minute(n) = 0

\* should_remind with a window of half the interval: 0..30
ShouldRemindHalfWindow(task, n) ==
    LET task_dt == datetime(task) IN
    IF IsSome(task_dt)
    THEN LET diff == NumSeconds(Sub(Unwrap(task_dt), n))
         IN  diff >= 0 /\ diff < 30
    ELSE task.date = n.date /\ Hour(n) = 9 /\ Minute(n) = 0

\* should_remind without the test of the minute
ShouldRemindAnyMinute(task, n) ==
    LET task_dt == datetime(task) IN
    IF IsSome(task_dt)
    THEN LET diff == NumSeconds(Sub(Unwrap(task_dt), n))
         IN  diff >= 0 /\ diff < 60
    ELSE task.date = n.date /\ Hour(n) = 9

\* The match on task.datetime() that sets should_remind
ShouldRemind(task, n) ==
    LET task_dt == datetime(task) IN
    IF IsSome(task_dt)
    THEN LET diff == NumSeconds(Sub(Unwrap(task_dt), n))
         IN  diff >= 0 /\ diff < 60
    ELSE task.date = n.date /\ Hour(n) = 9 /\ Minute(n) = 0

\* The loop without its test of task.completed
SkipNever(task) == FALSE

\* if task.completed { continue; }
SkipCompleted(task) == task.completed

\* A membership test that never finds the key
ContainsNever(guard, key) == FALSE

\* reminded_guard.contains(&key)
Contains(guard, key) == key \in guard

\* An insert that is lost
InsertDropped(guard, key) == guard

\* An insert that replaces the set
InsertReplacing(guard, key) == {key}

\* reminded_guard.insert(key)
Insert(guard, key) == guard \cup {key}

\* A pass that records the key of a task whether or not it is due
VisitTaskRecording(task, guard, n) ==
    IF SkipCompleted(task) THEN [guard |-> guard, fired |-> FALSE]
    ELSE LET key == unique_key(task) IN
         IF Contains(guard, key) THEN [guard |-> guard, fired |-> FALSE]
         ELSE [guard |-> Insert(guard, key), fired |-> ShouldRemind(task, n)]

\* One pass of the body of `for task in tasks`: the guarded set afterwards and
\* whether the reminder was logged.
VisitTask(task, guard, n) ==
    IF SkipCompleted(task) THEN [guard |-> guard, fired |-> FALSE]
    ELSE LET key == unique_key(task) IN
         IF Contains(guard, key) THEN [guard |-> guard, fired |-> FALSE]
         ELSE IF ShouldRemind(task, n)
              THEN [guard |-> Insert(guard, key), fired |-> TRUE]
              ELSE [guard |-> guard, fired |-> FALSE]

\* `for task in tasks` from position i on, under the write guard: the set
\* afterwards and the positions whose reminder was logged.
RECURSIVE ScanFrom(_, _, _, _)
ScanFrom(ts, i, guard, n) ==
    IF i > Len(ts) THEN [guard |-> guard, fired |-> {}]
    ELSE LET v    == VisitTask(ts[i], guard, n)
             rest == ScanFrom(ts, i + 1, v.guard, n)
         IN  [guard |-> rest.guard,
              fired |-> IF v.fired THEN {i} \cup rest.fired ELSE rest.fired]

Keys(ts, positions) == {unique_key(ts[i]) : i \in positions}

\* Keys logged by more than one of the positions
TwiceIn(ts, positions) ==
    {unique_key(ts[i]) : i \in {j \in positions :
        \E k \in positions : k # j /\ unique_key(ts[k]) = unique_key(ts[j])}}

\* One iteration of the loop whose read of the document yields `content` and
\* whose clock reads n. The write guard is taken before the scan and dropped
\* at the end of the iteration, so the lock is free before and after.
Cycle(content, n) ==
    /\ pc = "running"
    /\ lock = 0
    /\ \E ts \in {Parsed[content]} : \E r \in {ScanFrom(ts, 1, reminded, n)} :
        \E logged \in {Keys(ts, r.fired)} :
           /\ tasks' = ts
           /\ now' = n
           /\ prev' = reminded
           /\ reminded' = r.guard
           /\ fired' = r.fired
           /\ seen' = seen \cup Keys(ts, DOMAIN ts)
           /\ emitted' = emitted \cup logged
           /\ refired' = refired \cup (logged \cap emitted) \cup TwiceIn(ts, r.fired)
    /\ readFailed' = FALSE
    /\ pc' = "running"
    /\ UNCHANGED loopVars
    /\ UNCHANGED parseVars

\* One iteration whose read of the document fails: expect() panics in
\* read_markdown_file, the panic unwinds main and the process ends.
ReadFail ==
    /\ pc = "running"
    /\ pc' = "panicked"
    /\ readFailed' = TRUE
    /\ tasks' = <<>>
    /\ fired' = {}
    /\ prev' = reminded
    /\ UNCHANGED <<reminded, now, seen, emitted, refired, ticker>>
    /\ UNCHANGED loopVars
    /\ UNCHANGED parseVars

Tick ==
    /\ \E content \in Docs : \E n \in Nows : Cycle(content, n)
    /\ UNCHANGED ticker

\* The state when main enters its loop
Started ==
    /\ pc = "running"
    /\ reminded = {}
    /\ tasks = <<>>
    /\ now = DateTime(DayOne, 0, 0, 0, 0)
    /\ prev = {}
    /\ fired = {}
    /\ readFailed = FALSE
    /\ seen = {}
    /\ emitted = {}
    /\ refired = {}
    /\ lock = 0
    /\ lpc = [p \in 1..NumLoops |-> "tick"]
    /\ ltasks = [p \in 1..NumLoops |-> <<>>]
    /\ lnow = [p \in 1..NumLoops |-> DateTime(DayOne, 0, 0, 0, 0)]
    /\ lpos = [p \in 1..NumLoops |-> 1]

\* No text has been given to parse_tasks on its own
Unparsed == forms = <<>> /\ text = <<>> /\ parsed = None

Init == Started /\ ticker = DateTime(DayOne, 0, 0, 0, 0) /\ Unparsed

Next == Tick \/ ReadFail

Spec == Init /\ [][Next]_vars

----------------------------------------------------------------------------
(* Runs that look at the time window of a timed task *)

WindowTick ==
    /\ \E content \in WindowDocs : \E n \in WindowNows : Cycle(content, n)
    /\ UNCHANGED ticker

WindowNext == WindowTick \/ ReadFail

WindowSpec == Init /\ [][WindowNext]_vars

----------------------------------------------------------------------------
(* Runs whose documents hold a time no clock shows *)

LateTick ==
    /\ \E content \in LateDocs : \E n \in LateNows : Cycle(content, n)
    /\ UNCHANGED ticker

LateNext == LateTick \/ ReadFail

LateSpec == Init /\ [][LateNext]_vars

----------------------------------------------------------------------------
(* Runs whose ticks keep the cadence of the interval and whose reads succeed *)

\* interval(Duration::from_secs(60))
TickSeconds == 60

\* First ticks up to MaxLead seconds before 14:30
FirstTicks == {[date |-> DayOne, tod |-> HalfPast.tod - k] : k \in 1..(MaxLead * SubSec)}

\* ticker.tick().await returns at the cadence, the clock reads the instant of
\* the tick; the run is followed until an interval past 14:30.
CadenceTick ==
    /\ Sub(ticker, HalfPast) < TickSeconds * SubSec
    /\ \E content \in CadenceDocs : Cycle(content, ticker)
    /\ ticker' = PlusSeconds(ticker, TickSeconds)

CadenceInit == Started /\ ticker \in FirstTicks /\ Unparsed

CadenceNext == CadenceTick

CadenceSpec == CadenceInit /\ [][CadenceNext]_vars /\ WF_vars(CadenceTick)

----------------------------------------------------------------------------
(* Overlapping cycles: the loop body run by NumLoops tasks that share the   *)
(* Arc<RwLock<HashSet<String>>>, one step per await point or loop pass.    *)

Loops == 1..NumLoops

\* A lock that admits a writer beside another guard
CanWriteAlways(holder) == TRUE

\* reminded.write().await returns once no other guard is held
CanWrite(holder) == holder = 0

\* ticker.tick().await, the read, the parse and the clock sample
Read(p) ==
    /\ lpc[p] = "tick"
    /\ \E content \in OverlapDocs : \E n \in OverlapNows :
        /\ ltasks' = [ltasks EXCEPT ![p] = Parsed[content]]
        /\ lnow' = [lnow EXCEPT ![p] = n]
    /\ lpc' = [lpc EXCEPT ![p] = "lock"]
    /\ UNCHANGED <<lock, lpos, reminded, emitted, refired, ticker>>
    /\ UNCHANGED cycleVars

\* let mut reminded_guard = reminded.write().await
Acquire(p) ==
    /\ lpc[p] = "lock"
    /\ CanWrite(lock)
    /\ lock' = p
    /\ lpos' = [lpos EXCEPT ![p] = 1]
    /\ lpc' = [lpc EXCEPT ![p] = "scan"]
    /\ UNCHANGED <<ltasks, lnow, reminded, emitted, refired, ticker>>
    /\ UNCHANGED cycleVars

\* One pass of the for loop up to `if should_remind`
Check(p) ==
    /\ lpc[p] = "scan"
    /\ lpos[p] <= Len(ltasks[p])
    /\ LET task == ltasks[p][lpos[p]] IN
       IF /\ ~SkipCompleted(task)
          /\ ~Contains(reminded, unique_key(task))
          /\ ShouldRemind(task, lnow[p])
       THEN lpc' = [lpc EXCEPT ![p] = "emit"] /\ UNCHANGED lpos
       ELSE lpos' = [lpos EXCEPT ![p] = lpos[p] + 1] /\ UNCHANGED lpc
    /\ UNCHANGED <<lock, ltasks, lnow, reminded, emitted, refired, ticker>>
    /\ UNCHANGED cycleVars

\* info!(target: "reminder", ..) and reminded_guard.insert(key)
Emit(p) ==
    /\ lpc[p] = "emit"
    /\ LET key == unique_key(ltasks[p][lpos[p]]) IN
        /\ reminded' = Insert(reminded, key)
        /\ emitted' = emitted \cup {key}
        /\ refired' = IF key \in emitted THEN refired \cup {key} ELSE refired
    /\ lpos' = [lpos EXCEPT ![p] = lpos[p] + 1]
    /\ lpc' = [lpc EXCEPT ![p] = "scan"]
    /\ UNCHANGED <<lock, ltasks, lnow, ticker>>
    /\ UNCHANGED cycleVars

\* The end of the loop body drops reminded_guard
Release(p) ==
    /\ lpc[p] = "scan"
    /\ lpos[p] > Len(ltasks[p])
    /\ lock' = 0
    /\ lpc' = [lpc EXCEPT ![p] = "tick"]
    /\ UNCHANGED <<ltasks, lnow, lpos, reminded, emitted, refired, ticker>>
    /\ UNCHANGED cycleVars

OverlapNext ==
    \E p \in Loops : Read(p) \/ Acquire(p) \/ Check(p) \/ Emit(p) \/ Release(p)

OverlapSpec == Init /\ [][OverlapNext]_vars

----------------------------------------------------------------------------
(* parse_tasks on its own, over texts written from known lines *)

\* A line "- [status]" gap date timeGap time sep desc, or a line given whole
TaskForm(status, gap, date, timeGap, time, sep, desc) ==
    [kind |-> "task", status |-> status, gap |-> gap, date |-> date,
     timeGap |-> timeGap, time |-> time, sep |-> sep, desc |-> desc]

RawForm(line) == [kind |-> "raw", line |-> line]

Compose(form) ==
    IF form.kind = "raw" THEN form.line
    ELSE <<"-", " ", "[", form.status, "]">> \o form.gap \o form.date
            \o form.timeGap \o form.time \o form.sep \o form.desc

FormStatuses == {" ", "x", "X", "y"}

FormGaps == {<<>>, <<" ">>, <<" ", "\t">>}

\* 2024-05-01, 2024-02-29, 2023-02-29, 2024-13-01
FormDates ==
    {May1,
     <<"2", "0", "2", "4", "-", "0", "2", "-", "2", "9">>,
     <<"2", "0", "2", "3", "-", "0", "2", "-", "2", "9">>,
     <<"2", "0", "2", "4", "-", "1", "3", "-", "0", "1">>}

\* no time, " 14:30", " 25:00", and "14:30" set against the date
FormTimes ==
    {<<<<>>, <<>>>>,
     <<<<" ">>, <<"1", "4", ":", "3", "0">>>>,
     <<<<" ">>, <<"2", "5", ":", "0", "0">>>>,
     <<<<>>, <<"1", "4", ":", "3", "0">>>>}

FormSeps == {<<" ", ":", " ">>, <<":">>, <<" ", ":">>}

\* "w", "a b ", " ", "" and "14:30-w"
FormDescs ==
    {<<"w">>, <<"a", " ", "b", " ">>, <<" ">>, <<>>,
     <<"1", "4", ":", "3", "0", "-", "w">>}

TaskForms ==
    {TaskForm(st, g, d, t[1], t[2], sp, ds) :
        st \in FormStatuses, g \in FormGaps, d \in FormDates, t \in FormTimes,
        sp \in FormSeps, ds \in FormDescs}

\* Some random markdown heading
Heading ==
    RawForm(<<"S", "o", "m", "e", " ", "r", "a", "n", "d", "o", "m", " ",
              "m", "a", "r", "k", "d", "o", "w", "n", " ",
              "h", "e", "a", "d", "i", "n", "g">>)

\* - [ ] not-a-date : desc
NotADate ==
    RawForm(<<"-", " ", "[", " ", "]", " ", "n", "o", "t", "-", "a", "-",
              "d", "a", "t", "e", " ", ":", " ", "d", "e", "s", "c">>)

\* The lines of the texts of several lines
FewForms ==
    {Heading, NotADate, RawForm(<<>>),
     TaskForm(" ", <<" ">>, May1, <<" ">>, <<"1", "4", ":", "3", "0">>,
              <<" ", ":", " ">>, <<"w">>),
     TaskForm("X", <<" ">>, May1, <<>>, <<>>, <<" ", ":", " ">>,
              <<"a", " ", "b", " ">>),
     TaskForm(" ", <<" ">>, <<"2", "0", "2", "3", "-", "0", "2", "-", "2", "9">>,
              <<>>, <<>>, <<" ", ":", " ">>, <<"w">>)}

FormSeqs ==
    {<<>>} \cup {<<f>> : f \in TaskForms \cup FewForms}
           \cup UNION {[1..n -> FewForms] : n \in 2..MaxLines}

\* The lines ended by `ending`, the last one too if `closed`
RECURSIVE JoinWith(_, _, _)
JoinWith(ls, ending, closed) ==
    IF ls = <<>> THEN <<>>
    ELSE IF Len(ls) = 1 /\ ~closed THEN Head(ls)
    ELSE Head(ls) \o ending \o JoinWith(Tail(ls), ending, closed)

ComposeAll(fs) == [i \in DOMAIN fs |-> Compose(fs[i])]

\* The texts of the lines fs: ended by "\n", by "\r\n", or the last line open
TextsOf(fs) ==
    {JoinWith(ComposeAll(fs), <<"\n">>, TRUE),
     JoinWith(ComposeAll(fs), <<"\r", "\n">>, TRUE),
     JoinWith(ComposeAll(fs), <<"\n">>, FALSE)}

\* parse_tasks(&text)
Parse ==
    /\ parsed = None
    /\ parsed' = Some(parse_tasks(text))
    /\ UNCHANGED <<pc, reminded, tasks, now, prev, fired, readFailed, seen, emitted,
                   refired, ticker, forms, text>>
    /\ UNCHANGED loopVars

ParseInit ==
    /\ Started
    /\ ticker = DateTime(DayOne, 0, 0, 0, 0)
    /\ forms \in FormSeqs
    /\ text \in TextsOf(forms)
    /\ parsed = None

ParseNext == Parse

ParseSpec == ParseInit /\ [][ParseNext]_vars

----------------------------------------------------------------------------
(* Properties *)

KeyAt(i) == unique_key(tasks[i])

\* The task at position i of the latest cycle met a set without its key: the
\* key was not in the set when the cycle began and no earlier position of the
\* cycle logged it.
NotYetNotified(i) ==
    /\ KeyAt(i) \notin prev
    /\ \A j \in fired : j < i => KeyAt(j) # KeyAt(i)

\* The key of the timed lines
TimedKey == unique_key(Parsed[Join(<<TimedOpen>>)][1])

\* now - T in ticks, for the task at position i with a defined datetime T
SinceInstant(i) == Sub(now, Unwrap(datetime(tasks[i])))

\* C1: no key is ever logged twice in a run, and a cycle logs no reminder for
\* a key the set already held when the cycle began, whatever the documents
\* and clock readings of the cycles.
C1_AtMostOnce ==
    /\ refired = {}
    /\ \A i \in fired : KeyAt(i) \notin prev

\* C1 witness: a cycle met an incomplete task that is due at its clock
\* reading and whose key the set already held, and logged nothing for it.
C1_Witness ==
    \E i \in DOMAIN tasks :
        /\ ~tasks[i].completed
        /\ KeyAt(i) \in prev
        /\ ShouldRemind(tasks[i], now)
        /\ i \notin fired

\* C2 as claimed: an incomplete, not yet notified task with instant T is
\* logged when now is in [T, T+60s) and is not logged when now < T or
\* now >= T+60s.
C2_ForwardWindow ==
    \A i \in DOMAIN tasks :
        (~tasks[i].completed /\ NotYetNotified(i) /\ IsSome(datetime(tasks[i]))) =>
            /\ (SinceInstant(i) >= 0 /\ SinceInstant(i) < 60 * SubSec) => i \in fired
            /\ (SinceInstant(i) < 0 \/ SinceInstant(i) >= 60 * SubSec) => i \notin fired

\* C2 amended: an incomplete, not yet notified task with instant T is logged
\* if and only if T-60s < now < T+1s.
C2_WindowUpToInstant ==
    \A i \in DOMAIN tasks :
        (~tasks[i].completed /\ NotYetNotified(i) /\ IsSome(datetime(tasks[i]))) =>
            (i \in fired <=> (SinceInstant(i) > -(60 * SubSec) /\ SinceInstant(i) < SubSec))

\* C2 witness: a timed task was logged by a cycle whose clock read an instant
\* before the task's own.
C2_Witness ==
    \E i \in fired : IsSome(datetime(tasks[i])) /\ SinceInstant(i) < 0

\* C3: an incomplete, not yet notified task with a defined datetime is logged
\* if and only if (datetime - now) in whole seconds is at least 0 and less
\* than 60.
C3_TimedDueFormula ==
    \A i \in DOMAIN tasks :
        (~tasks[i].completed /\ NotYetNotified(i) /\ IsSome(datetime(tasks[i]))) =>
            (i \in fired <=>
                NumSeconds(Sub(Unwrap(datetime(tasks[i])), now)) \in 0..59)

\* C3 witness: a timed task was logged at a difference of 59 whole seconds.
C3_Witness ==
    \E i \in fired :
        /\ IsSome(datetime(tasks[i]))
        /\ NumSeconds(Sub(Unwrap(datetime(tasks[i])), now)) = 59

\* C4: a completed task is never logged, and every key a cycle adds to the
\* set is the key of an incomplete task the cycle logged.
C4_CompletedNeverFire ==
    /\ \A i \in fired : ~tasks[i].completed
    /\ \A i \in DOMAIN tasks :
        (tasks[i].completed /\ KeyAt(i) \in reminded) =>
            \/ KeyAt(i) \in prev
            \/ \E j \in fired : ~tasks[j].completed /\ KeyAt(j) = KeyAt(i)

\* C4 witness: a cycle met a completed timed task inside its window, its key
\* not in the set, and left the key out.
C4_Witness ==
    \E i \in DOMAIN tasks :
        /\ tasks[i].completed
        /\ IsSome(tasks[i].time)
        /\ ShouldRemind(tasks[i], now)
        /\ KeyAt(i) \notin reminded

\* C5: a task with no time is logged only by a cycle whose clock reads the
\* task's date and a time within the minute 09:00, and a completed task with
\* no time is never logged.
C5_AllDayTrigger ==
    \A i \in DOMAIN tasks :
        tasks[i].time = None =>
            /\ i \in fired =>
                /\ tasks[i].date = now.date
                /\ now.tod >= 9 * TicksPerHour
                /\ now.tod < 9 * TicksPerHour + TicksPerMinute
            /\ tasks[i].completed => i \notin fired

\* C5 witness: a task with no time was logged.
C5_Witness == \E i \in fired : tasks[i].time = None

\* C6: with ticks 60 seconds apart, reads that succeed and the timed task in
\* every document, incomplete, its instant after the first tick, some cycle
\* logs its reminder and no second one does.
C6_NoMissedFiring == <>(TimedKey \in emitted) /\ [](TimedKey \notin refired)

\* C6 witness: the reminder was logged by a cycle at 14:30 sharp, which is not
\* the first cycle of its run.
C6_Witness == fired # {} /\ now = HalfPast /\ TimedKey \notin prev

\* C7 as claimed: a tick whose read fails logs nothing, leaves the set as it
\* was, and the loop goes on.
C7_ReadFailureSparesLoop ==
    readFailed => (fired = {} /\ reminded = prev /\ pc = "running")

\* C8: a loop task scans (checks, decides, inserts) only while it holds the
\* lock, at most one holds it, it is free when none scans, and no key is
\* logged twice though cycles overlap.
C8_ScanUnderOneLock ==
    /\ \A p \in Loops : lpc[p] \in {"scan", "emit"} => lock = p
    /\ (\A p \in Loops : lpc[p] \in {"tick", "lock"}) => lock = 0
    /\ refired = {}

\* C8 witness: one loop task is about to log a reminder while another, which
\* read the document and found the same task due, waits for the lock.
C8_Witness ==
    \E p, q \in Loops :
        /\ p # q
        /\ lpc[p] = "emit"
        /\ lpc[q] = "lock"
        /\ lnow[q] = HalfPast
        /\ ltasks[q] # <<>>

\* C9: no step removes a key from the set, and the set never holds more keys
\* than the documents read so far have shown.
C9_GrowsMonotonically ==
    [][reminded \subseteq reminded' /\ Cardinality(reminded') <= Cardinality(seen')]_vars

\* C9 witness: a cycle added a key to a set that already held one.
C9_Witness == prev # {} /\ prev \subseteq reminded /\ reminded # prev

\* C10: two parsed tasks with the same date, time (or none) and description
\* have the same key, whatever their completion and their positions.
C10_KeyIgnoresCompletion ==
    \A i, j \in DOMAIN tasks :
        (/\ tasks[i].date = tasks[j].date
         /\ tasks[i].time = tasks[j].time
         /\ tasks[i].description = tasks[j].description)
            => unique_key(tasks[i]) = unique_key(tasks[j])

\* C10 witness: a document held the same task twice, once completed and once
\* not.
C10_Witness ==
    \E i, j \in DOMAIN tasks :
        /\ i < j
        /\ tasks[i].date = tasks[j].date
        /\ tasks[i].time = tasks[j].time
        /\ tasks[i].description = tasks[j].description
        /\ tasks[i].completed # tasks[j].completed

----------------------------------------------------------------------------
(* Properties of parse_tasks and of the tasks it returns *)

\* What a parse is expected to return, read off the pieces a line was written
\* from.

\* The text of a line after its colon
AfterColon(form) ==
    LET c == CHOOSE k \in DOMAIN form.sep : form.sep[k] = ":"
    IN  SubSeq(form.sep, c + 1, Len(form.sep)) \o form.desc

\* The dates of FormDates the calendar has: 2024-05-01 and 2024-02-29
CalendarDates == {May1, <<"2", "0", "2", "4", "-", "0", "2", "-", "2", "9">>}

\* The times of FormTimes a 24-hour clock shows
ClockTimes == {<<"1", "4", ":", "3", "0">>}

\* The descriptions of FormDescs without their outer whitespace
Trimmed(desc) ==
    IF desc = <<"a", " ", "b", " ">> THEN <<"a", " ", "b">>
    ELSE IF desc = <<" ">> THEN <<>>
    ELSE desc

\* The shape the regular expression of parse_tasks takes: any whitespace, or
\* none, between the bracket and the date; whitespace before a time; at least
\* one character, of any kind, after the colon.
RegexShape(form) ==
    /\ form.kind = "task"
    /\ form.status \in {" ", "x", "X"}
    /\ form.time # <<>> => form.timeGap # <<>>
    /\ AfterColon(form) # <<>>

\* The shape as documented: whitespace between the bracket and the date and a
\* description that is not empty.
DocumentedShape(form) ==
    /\ form.kind = "task"
    /\ form.status \in {" ", "x", "X"}
    /\ form.gap # <<>>
    /\ form.time # <<>> => form.timeGap # <<>>
    /\ Trimmed(form.desc) # <<>>

\* The line yields a task
Yields(form) == RegexShape(form) /\ form.date \in CalendarDates

\* The positions of forms that yield a task, and the k-th of them
Yielding == {i \in DOMAIN forms : Yields(forms[i])}
NthYielding(k) == CHOOSE i \in Yielding : Cardinality({j \in Yielding : j < i}) = k - 1

\* The task is the one the line was written to hold
Holds(task, form) ==
    /\ task.completed = (form.status \in {"x", "X"})
    /\ DateString(task.date) = form.date
    /\ task.time = (IF form.time = <<>> THEN None ELSE Some(form.time))
    /\ task.description = Trimmed(form.desc)

Returned == Unwrap(parsed)

\* The tasks parse_tasks returns for the single lines of TaskForms
ProbeTasks ==
    UNION {{parse_tasks(Compose(f))[i] : i \in DOMAIN parse_tasks(Compose(f))} :
            f \in TaskForms}

SameTriple(t, u) ==
    t.date = u.date /\ t.time = u.time /\ t.description = u.description

\* C11: two tasks parse_tasks returns that differ in date, time (or its
\* absence) or description have different keys.
C11_KeyInjective ==
    IsSome(parsed) =>
        \A k \in DOMAIN Returned : \A u \in ProbeTasks :
            ~SameTriple(Returned[k], u) => unique_key(Returned[k]) # unique_key(u)

\* C11 witness: a returned task with no time whose description begins like a
\* time followed by a dash.
C11_Witness ==
    /\ IsSome(parsed)
    /\ \E k \in DOMAIN Returned :
        /\ Returned[k].time = None
        /\ Returned[k].description = <<"1", "4", ":", "3", "0", "-", "w">>

\* C12 as claimed: a returned task has a time if and only if its datetime is
\* defined.
C12_OnlyValidTimes ==
    IsSome(parsed) =>
        \A k \in DOMAIN Returned :
            IsSome(Returned[k].time) <=> IsSome(datetime(Returned[k]))

\* C13: parse_tasks returns one task for each line of the regular expression's
\* shape with a date of the calendar, in the order of the lines, each holding
\* the fields of its line, and nothing for the other lines.
C13_OneTaskPerValidLine ==
    IsSome(parsed) =>
        /\ Len(Returned) = Cardinality(Yielding)
        /\ \A k \in DOMAIN Returned : Holds(Returned[k], forms[NthYielding(k)])

\* C13 witness: a text of several lines whose first line has a date outside
\* the calendar and whose later line gave a task.
C13_Witness ==
    /\ IsSome(parsed)
    /\ Len(forms) >= 2
    /\ forms[1].kind = "task" /\ forms[1].date \notin CalendarDates
    /\ Len(Returned) = 1

\* C14 as claimed: every returned task has a description that is not empty
\* and has no whitespace at either end.
C14_DescriptionNonEmpty ==
    IsSome(parsed) =>
        \A k \in DOMAIN Returned :
            /\ Returned[k].description # <<>>
            /\ ~IsSpace(Returned[k].description[1])
            /\ ~IsSpace(Returned[k].description[Len(Returned[k].description)])

\* The rendering a line of the documented shape is expected to give
Rendering(form) ==
    <<"[", (IF form.status = " " THEN " " ELSE "x"), "]", " ">> \o form.date
        \o (IF form.time = <<>> THEN <<>> ELSE <<" ">> \o form.time)
        \o <<" ", ":", " ">> \o Trimmed(form.desc)

\* C15: the task of a line of the documented shape, with a date of the
\* calendar and a time of the clock or none, renders as "[x]" or "[ ]" by the
\* line's status, then the line's date, time and trimmed description.
C15_RoundTrip ==
    (IsSome(parsed) /\ Len(forms) = 1) =>
        ((/\ DocumentedShape(forms[1])
          /\ forms[1].date \in CalendarDates
          /\ forms[1].time \in ClockTimes \cup {<<>>})
            => /\ Len(Returned) = 1
               /\ Display(Returned[1]) = Rendering(forms[1]))

\* C15 witness: a line with status X, a time and a description with spaces
\* was parsed and rendered.
C15_Witness ==
    /\ IsSome(parsed)
    /\ Len(forms) = 1
    /\ forms[1].kind = "task"
    /\ DocumentedShape(forms[1])
    /\ forms[1].status = "X"
    /\ forms[1].time \in ClockTimes
    /\ forms[1].desc = <<"a", " ", "b", " ">>
    /\ Len(Returned) = 1

\* C16 as claimed: a line yields a task if and only if it has the documented
\* shape and a date of the calendar.
C16_DocumentedGrammar ==
    (IsSome(parsed) /\ Len(forms) = 1) =>
        (Returned # <<>> <=>
            (DocumentedShape(forms[1]) /\ forms[1].date \in CalendarDates))

\* C16 amended: a line yields a task if and only if it has the shape of the
\* regular expression and a date of the calendar.
C16_RegexGrammar ==
    (IsSome(parsed) /\ Len(forms) = 1) =>
        (Returned # <<>> <=> Yields(forms[1]))

\* C16 witness: a line whose date follows the bracket at once gave a task.
C16_Witness ==
    /\ IsSome(parsed)
    /\ Len(forms) = 1
    /\ forms[1].kind = "task"
    /\ forms[1].gap = <<>>
    /\ Returned # <<>>

----------------------------------------------------------------------------
(* Properties of the set across cycles *)

\* The first incomplete position of the latest document with the key of i
FirstWithKey(i) ==
    CHOOSE j \in DOMAIN tasks :
        /\ ~tasks[j].completed /\ KeyAt(j) = KeyAt(i)
        /\ \A k \in DOMAIN tasks :
            (~tasks[k].completed /\ KeyAt(k) = KeyAt(i)) => j <= k

\* C17: when incomplete tasks of one document share date, time and
\* description and are due at the cycle's clock reading, the key not yet in
\* the set, the cycle logs the first of them in line order and no other, and
\* the set holds the key afterwards; no key is logged by two cycles.
C17_DuplicatesLogOnce ==
    /\ \A i \in DOMAIN tasks :
        (~tasks[i].completed /\ ShouldRemind(tasks[i], now) /\ KeyAt(i) \notin prev) =>
            /\ {j \in fired : SameTriple(tasks[j], tasks[i])} = {FirstWithKey(i)}
            /\ KeyAt(i) \in reminded
    /\ \A k \in emitted : k \in reminded
    /\ refired = {}

\* C17 witness: a document held the same incomplete task twice, due, and the
\* cycle logged the first and not the second.
C17_Witness ==
    \E i, j \in DOMAIN tasks :
        /\ i < j
        /\ ~tasks[i].completed /\ ~tasks[j].completed
        /\ SameTriple(tasks[i], tasks[j])
        /\ ShouldRemind(tasks[j], now)
        /\ i \in fired /\ j \notin fired

\* C18: the set after a cycle is the set before it plus the keys of the tasks
\* the cycle logged, and a cycle that logs nothing leaves the set as it was.
C18_ChangesOnlyByEmission ==
    /\ reminded = prev \cup {KeyAt(i) : i \in fired}
    /\ fired = {} => reminded = prev

\* C18 witness: a cycle logged one task and met another, incomplete and not
\* due, whose key stayed out of the set.
C18_Witness ==
    /\ fired # {}
    /\ \E i \in DOMAIN tasks :
        /\ ~tasks[i].completed
        /\ ~ShouldRemind(tasks[i], now)
        /\ KeyAt(i) \notin reminded

\* C19 as claimed: a logged task with a time present has a defined datetime
\* and was logged inside its window.
C19_TimedOnlyByWindow ==
    \A i \in fired :
        IsSome(tasks[i].time) =>
            /\ IsSome(datetime(tasks[i]))
            /\ NumSeconds(Sub(Unwrap(datetime(tasks[i])), now)) \in 0..59

====
